---- MODULE Spec2Model ----
(***************************************************************************)
(* Face-recognition attendance system (GrayArkw/DIPlomka).                 *)
(*                                                                         *)
(*   face_recognition.py  FaceRecognitionSystem: take_images, train_model, *)
(*                        track_attendance and their helpers               *)
(*   camera_managers.py   CameraManager: the frame source                  *)
(*   Interface.py         AttendanceSystemUI: the Tk main thread and the   *)
(*                        worker threads it starts                         *)
(*                                                                         *)
(* The files the program keeps (StudentDetails.csv, Attendance.csv,        *)
(* TrainingImages/, ImagesUnknown/, Trainer.yml) are state variables.      *)
(* Text is a sequence of one-character strings, so that formatting a file  *)
(* name, splitting it at the dots and int() are computed, not assumed.     *)
(***************************************************************************)
EXTENDS Integers, Sequences, FiniteSets, TLC

VARIABLES
    registry,     \* StudentDetails.csv: the rows after the header, <<id, name>> texts
    samples,      \* TrainingImages/: set of [fname, img]
    modelFile,    \* Trainer.yml: [exists, pairs]
    attendance,   \* Attendance.csv: the rows after the header
    unknownDir,   \* ImagesUnknown/: the sequence numbers of the files in it
    trainCalls,   \* train_model calls made so far (bounded)
    trainLog,     \* the last train_model call: what it read and what it returned
    image_queue,  \* VideoViewer.image_queue: the frames waiting, oldest first
    current_image, \* VideoViewer.current_image: the frame on display
    viewLog,      \* history of the frame queue (read by the properties only)
    cap,          \* CameraManager.cap: "none", "open", or "closed" (a capture that did not open)
    is_scanning,  \* FaceRecognitionSystem.is_scanning
    scan_btn,     \* the text of the scan button
    scan,         \* per scanning thread: its place in track_attendance and its locals
    scanLog,      \* per scanning thread: history of what it did (read by the properties only)
    reg,          \* per registration thread: its place in _process_registration and its locals
    regLog        \* per registration thread: history of what it did (read by the properties only)

fileVars == <<registry, samples, modelFile, attendance, unknownDir>>
trainVars == <<trainCalls, trainLog>>
scanVars == <<cap, is_scanning, scan_btn, scan, scanLog>>
regVars == <<reg, regLog>>
viewVars == <<image_queue, current_image, viewLog>>
vars == <<fileVars, trainVars, viewVars, scanVars, regVars>>

----------------------------------------------------------------------------
(* Text *)

Digits == {"0", "1", "2", "3", "4", "5", "6", "7", "8", "9"}

DigitVal(c) ==
    CASE c = "0" -> 0 [] c = "1" -> 1 [] c = "2" -> 2 [] c = "3" -> 3
      [] c = "4" -> 4 [] c = "5" -> 5 [] c = "6" -> 6 [] c = "7" -> 7
      [] c = "8" -> 8 [] c = "9" -> 9

DigitChar(d) ==
    CASE d = 0 -> "0" [] d = 1 -> "1" [] d = 2 -> "2" [] d = 3 -> "3"
      [] d = 4 -> "4" [] d = 5 -> "5" [] d = 6 -> "6" [] d = 7 -> "7"
      [] d = 8 -> "8" [] d = 9 -> "9"

\* str.isdigit() on the texts of this model: non-empty, every character a digit.
IsDigitStr(s) == Len(s) > 0 /\ \A i \in 1..Len(s) : s[i] \in Digits

\* int(s) for a text int() accepts: the decimal value, leading zeros dropped.
RECURSIVE IntOf(_)
IntOf(s) ==
    IF Len(s) = 0 THEN 0
    ELSE 10 * IntOf(SubSeq(s, 1, Len(s) - 1)) + DigitVal(s[Len(s)])

\* str(n) of a natural number, as an f-string formats it.
RECURSIVE StrOf(_)
StrOf(n) ==
    IF n < 10 THEN <<DigitChar(n)>>
    ELSE StrOf(n \div 10) \o <<DigitChar(n % 10)>>

\* s.split("."): the pieces between the dots (always at least one piece).
RECURSIVE SplitDots(_)
SplitDots(s) ==
    IF \A i \in 1..Len(s) : s[i] # "."
    THEN <<s>>
    ELSE LET k == CHOOSE i \in 1..Len(s) :
                     s[i] = "." /\ \A j \in 1..(i - 1) : s[j] # "."
         IN  <<SubSeq(s, 1, k - 1)>> \o SplitDots(SubSeq(s, k + 1, Len(s)))

\* f"{name}.{student_id}.{sample_num}.jpg", the file name below TrainingImages/.
SampleFileName(name, student_id, sample_num) ==
    name \o <<".">> \o student_id \o <<".">> \o StrOf(sample_num) \o <<".", "j", "p", "g">>

\* Names and ids used as inputs.
NameA == <<"A">>
NameB == <<"B">>
Id1 == <<"1">>
Id01 == <<"0", "1">>
Id2 == <<"2">>

----------------------------------------------------------------------------
(* Files *)

ImgOk  == "ok"        \* the file decodes as an image
ImgBad == "bad"       \* Image.open raises on it

NoModel == [exists |-> FALSE, pairs |-> {}]
ModelOf(pairs) == [exists |-> TRUE, pairs |-> pairs]

\* cv2.imwrite(path, img): the file is created, or replaced when the name exists.
ImWrite(dir, fname) ==
    {f \in dir : f.fname # fname} \cup {[fname |-> fname, img |-> ImgOk]}

----------------------------------------------------------------------------
(* train_model *)

RetNoTrainingData == <<FALSE, "No training images found">>
RetNoFacesDetected == <<FALSE, "No faces detected in training images">>
RetTrainingError == <<FALSE, "Training error">>
RetTrained == <<TRUE, "Model training completed">>

\* The body of the loop of _get_images_and_labels for one file: the pair it
\* appends, or nothing when Image.open, the [1] or int() raises.
LabelledImage(f) ==
    LET parts == SplitDots(f.fname) IN
    IF f.img = ImgOk /\ Len(parts) >= 2 /\ IsDigitStr(parts[2])
    THEN {[img |-> f.fname, label |-> IntOf(parts[2])]}
    ELSE {}

GetImagesAndLabels_FirstErrorAborts(dir) ==
    IF \E f \in dir : LabelledImage(f) = {} THEN {}
    ELSE UNION {LabelledImage(f) : f \in dir}

GetImagesAndLabels(dir) == UNION {LabelledImage(f) : f \in dir}

TrainOutcome_NoEmptyDirCheck(dir, old) ==
    LET faces == GetImagesAndLabels(dir) IN
    IF faces = {} THEN [ret |-> RetNoFacesDetected, model |-> old]
    ELSE [ret |-> RetTrained, model |-> ModelOf(faces)]

TrainOutcome_NoFacesCheck(dir, old) ==
    LET faces == GetImagesAndLabels(dir) IN
    IF dir = {} THEN [ret |-> RetNoTrainingData, model |-> old]
    ELSE IF faces = {} THEN [ret |-> RetTrainingError, model |-> old]
    ELSE [ret |-> RetTrained, model |-> ModelOf(faces)]

TrainOutcome_Incremental(dir, old) ==
    LET faces == GetImagesAndLabels(dir) IN
    IF dir = {} THEN [ret |-> RetNoTrainingData, model |-> old]
    ELSE IF faces = {} THEN [ret |-> RetNoFacesDetected, model |-> old]
    ELSE [ret |-> RetTrained, model |-> ModelOf(old.pairs \cup faces)]

\* train_model on the sample store dir with Trainer.yml holding old: what it
\* returns and what Trainer.yml holds afterwards.
TrainOutcome(dir, old) ==
    LET faces == GetImagesAndLabels(dir) IN
    IF dir = {} THEN [ret |-> RetNoTrainingData, model |-> old]
    ELSE IF faces = {} THEN [ret |-> RetNoFacesDetected, model |-> old]
    ELSE [ret |-> RetTrained, model |-> ModelOf(faces)]

NoTrainLog == [called |-> FALSE, store |-> {}, before |-> NoModel, ret |-> <<FALSE, "">>]

----------------------------------------------------------------------------
(* The camera *)

\* CameraManager.get_frame with the device behaving as dev ("frame": it
\* delivers, "nothing": it is there and delivers nothing, "unavailable": it
\* cannot be opened): the new value of cap and what the caller gets, "ok" for
\* (True, frame), "fail" for (False, None), "raise" for start_camera's
\* RuntimeError. start_camera assigns cap before it tests isOpened().
GetFrame(c, dev) ==
    IF c = "none"
    THEN IF dev = "unavailable" THEN [cap |-> "closed", result |-> "raise"]
         ELSE [cap |-> "open", result |-> IF dev = "frame" THEN "ok" ELSE "fail"]
    ELSE IF c = "open"
    THEN [cap |-> "open", result |-> IF dev = "frame" THEN "ok" ELSE "fail"]
    ELSE [cap |-> "closed", result |-> "fail"]

Devices == {"frame", "nothing", "unavailable"}

----------------------------------------------------------------------------
(* VideoViewer: the frame queue between the producers of frames and the
   canvas *)

\* queue.Queue(maxsize=1)
QueueMaxSize == 1

NoImage == [src |-> "", n |-> 0]

ViewLogInit ==
    [offers |-> 0, latest |-> NoImage, takes |-> 0, latestAtTake |-> NoImage,
     discarded |-> NoImage]

ViewIdle ==
    /\ image_queue = <<>>
    /\ current_image = NoImage
    /\ viewLog = ViewLogInit

\* The callers of update_frame: the video stream of the main thread, the
\* frame notification of a scanning thread, the progress notification of a
\* registration thread.
FrameSources == {"stream", "scan", "registration"}

\* queue.Queue.put_nowait(item) on a queue of maxsize: the item goes to the
\* end, or queue.Full is raised and the queue stays as it is.
PutNowait(q, maxsize, item) ==
    IF Len(q) >= maxsize
    THEN [full |-> TRUE, queue |-> q]
    ELSE [full |-> FALSE, queue |-> Append(q, item)]

\* VideoViewer.update_frame(cv_image): put_nowait, and queue.Full is passed
\* over. It returns in every case.
UpdateFrame(img) ==
    LET p == PutNowait(image_queue, QueueMaxSize, img) IN
    /\ image_queue' = p.queue
    /\ viewLog' = [viewLog EXCEPT !.offers = @ + 1, !.latest = img,
                                 !.discarded = IF p.full THEN img ELSE @]
    /\ UNCHANGED <<fileVars, trainVars, scanVars, regVars, current_image>>

\* VideoViewer._process_queue: get_nowait takes the frame at the head, which is
\* displayed; queue.Empty is passed over.
ProcessQueue ==
    /\ IF image_queue = <<>>
       THEN UNCHANGED <<image_queue, current_image, viewLog>>
       ELSE /\ current_image' = Head(image_queue)
            /\ image_queue' = Tail(image_queue)
            /\ viewLog' = [viewLog EXCEPT !.takes = @ + 1, !.latestAtTake = viewLog.latest]
    /\ UNCHANGED <<fileVars, trainVars, scanVars, regVars>>

----------------------------------------------------------------------------
(* track_attendance *)

ConfidenceThreshold == 60

UnknownName == <<"U", "n", "k", "n", "o", "w", "n">>

RetModelNotTrained == <<FALSE, "Model not trained">>
RetTrackingCompleted == <<TRUE, "Attendance tracking completed">>
RetTrackingError == <<FALSE, "Error">>
NoRet == <<FALSE, "">>

\* pd.read_csv("StudentDetails.csv") on rows whose ids are digit texts: the ID
\* column is read as integers.
PdReadCsv(rows) ==
    [i \in 1..Len(rows) |-> [ID |-> IntOf(rows[i][1]), NAME |-> rows[i][2]]]

\* df.loc[df['ID'] == id_num, 'NAME'].values[0] if id_num in df['ID'].values
\* else "Unknown"
StudentName(df, id_num) ==
    IF \E i \in 1..Len(df) : df[i].ID = id_num
    THEN df[CHOOSE i \in 1..Len(df) :
                df[i].ID = id_num /\ \A j \in 1..(i - 1) : df[j].ID # id_num].NAME
    ELSE UnknownName

\* Line 238 of _save_unknown_face: unknown_count = len(os.listdir("ImagesUnknown")).
UnknownCount(dir) == Cardinality(dir)

SaveUnknownFace_FixedName(dir, unknown_count) ==
    dir \cup {1}

\* Lines 239-240 of _save_unknown_face: the file Unknown_{unknown_count + 1}.jpg
\* is written, created or replaced.
SaveUnknownFace(dir, unknown_count) == dir \cup {unknown_count + 1}

ProcessFace_UnregisteredIsUnknown(face, recognized_ids, df, has_callback) ==
    IF face.conf < ConfidenceThreshold /\ \E i \in 1..Len(df) : df[i].ID = face.id
    THEN [recognized |-> TRUE,
          name |-> StudentName(df, face.id),
          record |-> face.id \notin recognized_ids,
          recognized_ids |-> recognized_ids \cup {face.id},
          notify |-> has_callback /\ face.id \notin recognized_ids,
          label |-> StudentName(df, face.id), color |-> "green",
          save_unknown |-> FALSE]
    ELSE [recognized |-> FALSE, name |-> UnknownName, record |-> FALSE,
          recognized_ids |-> recognized_ids, notify |-> FALSE,
          label |-> UnknownName, color |-> "red", save_unknown |-> TRUE]

ProcessFace_ThresholdInclusive(face, recognized_ids, df, has_callback) ==
    IF face.conf <= ConfidenceThreshold
    THEN [recognized |-> TRUE,
          name |-> StudentName(df, face.id),
          record |-> face.id \notin recognized_ids,
          recognized_ids |-> recognized_ids \cup {face.id},
          notify |-> has_callback /\ face.id \notin recognized_ids,
          label |-> StudentName(df, face.id), color |-> "green",
          save_unknown |-> FALSE]
    ELSE [recognized |-> FALSE, name |-> UnknownName, record |-> FALSE,
          recognized_ids |-> recognized_ids, notify |-> FALSE,
          label |-> UnknownName, color |-> "red", save_unknown |-> TRUE]

ProcessFace_NoSeenSet(face, recognized_ids, df, has_callback) ==
    IF face.conf < ConfidenceThreshold
    THEN [recognized |-> TRUE,
          name |-> StudentName(df, face.id),
          record |-> TRUE,
          recognized_ids |-> recognized_ids,
          notify |-> has_callback,
          label |-> StudentName(df, face.id), color |-> "green",
          save_unknown |-> FALSE]
    ELSE [recognized |-> FALSE, name |-> UnknownName, record |-> FALSE,
          recognized_ids |-> recognized_ids, notify |-> FALSE,
          label |-> UnknownName, color |-> "red", save_unknown |-> TRUE]

\* The body of "for (x, y, w, h) in faces" for one face, predicted as face.id
\* with confidence face.conf: what is done with it.
ProcessFace(face, recognized_ids, df, has_callback) ==
    IF face.conf < ConfidenceThreshold
    THEN [recognized |-> TRUE,
          name |-> StudentName(df, face.id),
          record |-> face.id \notin recognized_ids,
          recognized_ids |-> recognized_ids \cup {face.id},
          notify |-> has_callback /\ face.id \notin recognized_ids,
          label |-> StudentName(df, face.id), color |-> "green",
          save_unknown |-> FALSE]
    ELSE [recognized |-> FALSE, name |-> UnknownName, record |-> FALSE,
          recognized_ids |-> recognized_ids, notify |-> FALSE,
          label |-> UnknownName, color |-> "red", save_unknown |-> TRUE]

\* Scanning threads. Worker 1 is also the caller of the specification that runs
\* track_attendance on its own.
MaxScanWorkers == 2
ScanWorkers == 1..MaxScanWorkers

\* get_frame calls one track_attendance invocation makes at most.
MaxFrames == 2

\* What update_callback(frame=frame) may return: the UI's callback returns
\* is_scanning; "any" stands for a caller's callback.
CallbackReturns(kind, flag) ==
    IF kind = "ui" THEN {IF flag THEN "True" ELSE "False"}
    ELSE {"True", "False", "None"}

\* Python's truth value of a callback's return value.
Truthy(v) == v = "True"

ScanLocalsInit ==
    [pc |-> "unborn", cb |-> "absent", recognizer |-> {}, df |-> <<>>,
     recognized_ids |-> {}, faces |-> <<>>, unknown_count |-> 0, ret |-> NoRet]

NoFace ==
    [id |-> 0, conf |-> 0, first |-> FALSE, recorded |-> FALSE, marked |-> FALSE,
     notified |-> FALSE, label |-> <<>>, color |-> "", saved |-> FALSE, grew |-> 0]

ScanLogInit ==
    [calls |-> 0, passed |-> {}, faces |-> 0, last |-> NoFace, notes |-> 0,
     saved |-> 0, flagAtEntry |-> FALSE, stopped |-> FALSE, allowed |-> 0,
     aborted |-> "", lastCb |-> "", callsAtCb |-> 0, broke |-> FALSE,
     rowsAtEntry |-> <<>>, modelAtEntry |-> NoModel]

LoopPcs == {"loop", "frame", "faces", "save", "callback"}

\* The flag is cleared: each thread in the loop of track_attendance is noted as
\* stopped, with the get_frame calls it may still make: the one of the
\* iteration in progress, if that is still to come.
NoteStopped(log) ==
    [w \in ScanWorkers |->
        IF scan[w].pc \in LoopPcs /\ ~log[w].stopped
        THEN [log[w] EXCEPT !.stopped = TRUE,
                            !.allowed = log[w].calls + (IF scan[w].pc = "frame" THEN 1 ELSE 0)]
        ELSE log[w]]

ScanIdle ==
    /\ cap = "none"
    /\ is_scanning = FALSE
    /\ scan_btn = "Start Scanning"
    /\ scan = [w \in ScanWorkers |-> ScanLocalsInit]
    /\ scanLog = [w \in ScanWorkers |-> ScanLogInit]

TrackEnter_SeenSetShared(w) ==
    /\ scan[w].pc = "enter"
    /\ IF ~modelFile.exists
       THEN scan' = [scan EXCEPT ![w].pc = "returned", ![w].ret = RetModelNotTrained]
       ELSE scan' = [scan EXCEPT ![w].pc = "loop",
                                 ![w].recognizer = {p.label : p \in modelFile.pairs},
                                 ![w].df = PdReadCsv(registry),
                                 ![w].recognized_ids =
                                     UNION {scan[v].recognized_ids : v \in ScanWorkers}]
    /\ scanLog' = [scanLog EXCEPT ![w].flagAtEntry = is_scanning,
                                  ![w].rowsAtEntry = registry,
                                  ![w].modelAtEntry = modelFile]
    /\ UNCHANGED <<fileVars, trainVars, viewVars, regVars, cap, is_scanning, scan_btn>>

TrackEnter_NoModelCheck(w) ==
    /\ scan[w].pc = "enter"
    /\ scan' = [scan EXCEPT ![w].pc = "loop",
                            ![w].recognizer = {p.label : p \in modelFile.pairs},
                            ![w].df = PdReadCsv(registry),
                            ![w].recognized_ids = {}]
    /\ scanLog' = [scanLog EXCEPT ![w].flagAtEntry = is_scanning,
                                  ![w].rowsAtEntry = registry,
                                  ![w].modelAtEntry = modelFile]
    /\ UNCHANGED <<fileVars, trainVars, viewVars, regVars, cap, is_scanning, scan_btn>>

\* Lines 160-177: the model check, and the loading of the model and the registry.
TrackEnter(w) ==
    /\ scan[w].pc = "enter"
    /\ IF ~modelFile.exists
       THEN scan' = [scan EXCEPT ![w].pc = "returned", ![w].ret = RetModelNotTrained]
       ELSE scan' = [scan EXCEPT ![w].pc = "loop",
                                 ![w].recognizer = {p.label : p \in modelFile.pairs},
                                 ![w].df = PdReadCsv(registry),
                                 ![w].recognized_ids = {}]
    /\ scanLog' = [scanLog EXCEPT ![w].flagAtEntry = is_scanning,
                                  ![w].rowsAtEntry = registry,
                                  ![w].modelAtEntry = modelFile]
    /\ UNCHANGED <<fileVars, trainVars, viewVars, regVars, cap, is_scanning, scan_btn>>

TrackLoop_TestAfterBody(w) ==
    /\ scan[w].pc = "loop"
    /\ IF is_scanning \/ scanLog[w].calls = 0
       THEN scan' = [scan EXCEPT ![w].pc = "frame"]
       ELSE scan' = [scan EXCEPT ![w].pc = "returned", ![w].ret = RetTrackingCompleted]
    /\ UNCHANGED scanLog
    /\ UNCHANGED <<fileVars, trainVars, viewVars, regVars, cap, is_scanning, scan_btn>>

\* Line 179: while self.is_scanning.
TrackLoop(w) ==
    /\ scan[w].pc = "loop"
    /\ IF is_scanning
       THEN scan' = [scan EXCEPT ![w].pc = "frame"]
       ELSE scan' = [scan EXCEPT ![w].pc = "returned", ![w].ret = RetTrackingCompleted]
    /\ UNCHANGED scanLog
    /\ UNCHANGED <<fileVars, trainVars, viewVars, regVars, cap, is_scanning, scan_btn>>

\* Lines 180-185: get_frame and the detection of the faces of the frame. The
\* faces come as the recognizer will predict them, from the set frames.
TrackFrame(w, frames) ==
    /\ scan[w].pc = "frame"
    /\ scanLog[w].calls < MaxFrames
    /\ \E dev \in Devices :
        LET g == GetFrame(cap, dev) IN
        /\ cap' = g.cap
        /\ scanLog' = [scanLog EXCEPT
               ![w].calls = @ + 1,
               ![w].aborted = IF g.result = "raise" THEN "get_frame" ELSE @]
        /\ IF g.result = "raise"
           THEN scan' = [scan EXCEPT ![w].pc = "returned", ![w].ret = RetTrackingError]
           ELSE IF g.result = "fail"
           THEN scan' = [scan EXCEPT ![w].pc = "loop"]
           ELSE \E fr \in frames :
                /\ \A i \in 1..Len(fr) : fr[i].id \in scan[w].recognizer
                /\ scan' = [scan EXCEPT ![w].faces = fr,
                               ![w].pc = IF fr = <<>> THEN "callback" ELSE "faces"]
    /\ UNCHANGED <<fileVars, trainVars, viewVars, regVars, is_scanning, scan_btn>>

\* Lines 187-214: one face of the frame, up to the count of the files of
\* ImagesUnknown where the face is unknown; the file is written by TrackSave.
TrackFace(w) ==
    /\ scan[w].pc = "faces"
    /\ LET face == Head(scan[w].faces)
           o == ProcessFace(face, scan[w].recognized_ids, scan[w].df,
                            scan[w].cb # "absent")
       IN
        /\ attendance' = IF o.record
                         THEN Append(attendance, [id |-> face.id, name |-> o.name, by |-> w])
                         ELSE attendance
        /\ scan' = [scan EXCEPT
               ![w].recognized_ids = o.recognized_ids,
               ![w].faces = Tail(@),
               ![w].unknown_count = IF o.save_unknown THEN UnknownCount(unknownDir) ELSE @,
               ![w].pc = IF o.save_unknown THEN "save"
                         ELSE IF Tail(scan[w].faces) = <<>> THEN "callback" ELSE "faces"]
        /\ scanLog' = [scanLog EXCEPT
               ![w].passed = IF face.conf < ConfidenceThreshold THEN @ \cup {face.id} ELSE @,
               ![w].faces = @ + 1,
               ![w].notes = IF o.notify THEN @ + 1 ELSE @,
               ![w].last = [id |-> face.id, conf |-> face.conf,
                            first |-> face.id \notin scanLog[w].passed,
                            recorded |-> o.record,
                            marked |-> o.recognized_ids # scan[w].recognized_ids,
                            notified |-> o.notify,
                            label |-> o.label, color |-> o.color,
                            saved |-> o.save_unknown,
                            grew |-> 0]]
    /\ UNCHANGED <<registry, samples, modelFile, unknownDir, trainVars, viewVars, regVars,
                   cap, is_scanning, scan_btn>>

\* Lines 239-240: the unknown face is written under the number counted.
TrackSave(w) ==
    /\ scan[w].pc = "save"
    /\ unknownDir' = SaveUnknownFace(unknownDir, scan[w].unknown_count)
    /\ scan' = [scan EXCEPT ![w].pc = IF scan[w].faces = <<>> THEN "callback" ELSE "faces"]
    /\ scanLog' = [scanLog EXCEPT
           ![w].saved = @ + 1,
           ![w].last.grew = Cardinality(unknownDir') - Cardinality(unknownDir)]
    /\ UNCHANGED <<registry, samples, modelFile, attendance, trainVars, viewVars, regVars,
                   cap, is_scanning, scan_btn>>

TrackCallback_ReturnIgnored(w) ==
    /\ scan[w].pc = "callback"
    /\ IF scan[w].cb = "absent"
       THEN /\ scan' = [scan EXCEPT ![w].pc = "loop"]
            /\ UNCHANGED scanLog
       ELSE \E v \in CallbackReturns(scan[w].cb, is_scanning) :
            /\ scanLog' = [scanLog EXCEPT ![w].notes = @ + 1,
                                          ![w].lastCb = v,
                                          ![w].callsAtCb = scanLog[w].calls]
            /\ scan' = [scan EXCEPT ![w].pc = "loop"]
    /\ UNCHANGED <<fileVars, trainVars, viewVars, regVars, cap, is_scanning, scan_btn>>

\* Lines 216-217: the update notification with the frame, and the break.
TrackCallback(w) ==
    /\ scan[w].pc = "callback"
    /\ IF scan[w].cb = "absent"
       THEN /\ scan' = [scan EXCEPT ![w].pc = "loop"]
            /\ UNCHANGED scanLog
       ELSE \E v \in CallbackReturns(scan[w].cb, is_scanning) :
            /\ scanLog' = [scanLog EXCEPT ![w].notes = @ + 1,
                                          ![w].lastCb = v,
                                          ![w].callsAtCb = scanLog[w].calls,
                                          ![w].broke = ~Truthy(v)]
            /\ IF ~Truthy(v)
               THEN scan' = [scan EXCEPT ![w].pc = "returned",
                                         ![w].ret = RetTrackingCompleted]
               ELSE scan' = [scan EXCEPT ![w].pc = "loop"]
    /\ UNCHANGED <<fileVars, trainVars, viewVars, regVars, cap, is_scanning, scan_btn>>

----------------------------------------------------------------------------
(* take_images and the registration threads *)

MaxRegWorkers == 2
RegWorkers == 1..MaxRegWorkers

\* student_id_exists: a row whose first field is the text student_id.
StudentIdExists(rows, student_id) ==
    \E i \in 1..Len(rows) : rows[i][1] = student_id

\* str.isalpha() of name.replace(" ", "") on the texts of this model.
IsAlphaStr(s) ==
    LET letters == SelectSeq(s, LAMBDA c : c # " ") IN
    Len(letters) > 0 /\ \A i \in 1..Len(letters) : letters[i] \in {"A", "B"}

\* _validate_inputs on the (stripped) entries of the form.
ValidateInputs(name, student_id) ==
    /\ IsAlphaStr(name)
    /\ IsDigitStr(student_id)
    /\ ~StudentIdExists(registry, student_id)

RegLocalsInit ==
    [pc |-> "unborn", name |-> <<>>, student_id |-> <<>>, pose |-> 0, attempt |-> 0,
     sample_num |-> 0, ret |-> <<FALSE, 0>>, trained |-> NoRet]

RegLogInit ==
    [dupAtEntry |-> FALSE, calls |-> 0, written |-> 0, rowAdded |-> FALSE,
     failed |-> FALSE, samplesSoFar |-> 0]

RegIdle ==
    /\ reg = [r \in RegWorkers |-> RegLocalsInit]
    /\ regLog = [r \in RegWorkers |-> RegLogInit]

WriteSamples_FirstFaceOnly(dir, name, student_id, sample_num, n) ==
    IF n = 0 THEN dir
    ELSE ImWrite(dir, SampleFileName(name, student_id, sample_num + 1))

\* The files written for the faces of one frame: sample_num + 1 .. sample_num + n.
RECURSIVE WriteSamples(_, _, _, _, _)
WriteSamples(dir, name, student_id, sample_num, n) ==
    IF n = 0 THEN dir
    ELSE WriteSamples(ImWrite(dir, SampleFileName(name, student_id, sample_num + 1)),
                      name, student_id, sample_num + 1, n - 1)

\* Lines 58-62: the detector is created and the count starts at 0. Nothing
\* here reads the registry; the log notes whether the id is in it.
TakeEnter(r) ==
    /\ reg[r].pc = "enter"
    /\ reg' = [reg EXCEPT ![r].pc = "capture", ![r].pose = 1, ![r].attempt = 1,
                          ![r].sample_num = 0]
    /\ regLog' = [regLog EXCEPT
           ![r].dupAtEntry = StudentIdExists(registry, reg[r].student_id)]
    /\ UNCHANGED <<fileVars, trainVars, viewVars, scanVars>>

TakeAttempt_RetryWithoutFrame(r, poses, attempts, face_counts) ==
    /\ reg[r].pc = "capture"
    /\ \E dev \in Devices :
        LET g == GetFrame(cap, dev)
            last == reg[r].attempt = attempts
            next_pose == IF last THEN reg[r].pose + 1 ELSE reg[r].pose
            next_attempt == IF last THEN 1 ELSE reg[r].attempt + 1
            next_pc == IF last /\ reg[r].pose = poses THEN "register" ELSE "capture"
        IN
        /\ cap' = g.cap
        /\ IF g.result = "raise"
           THEN /\ reg' = [reg EXCEPT ![r].pc = "returned", ![r].ret = <<FALSE, 0>>]
                /\ regLog' = [regLog EXCEPT ![r].calls = @ + 1, ![r].failed = TRUE,
                                            ![r].samplesSoFar = reg[r].sample_num]
                /\ UNCHANGED samples
           ELSE IF g.result = "fail"
           THEN /\ UNCHANGED reg
                /\ regLog' = [regLog EXCEPT ![r].calls = @ + 1]
                /\ UNCHANGED samples
           ELSE \E n \in face_counts :
                /\ samples' = WriteSamples(samples, reg[r].name, reg[r].student_id,
                                           reg[r].sample_num, n)
                /\ reg' = [reg EXCEPT ![r].pc = next_pc, ![r].pose = next_pose,
                                      ![r].attempt = next_attempt,
                                      ![r].sample_num = @ + n]
                /\ regLog' = [regLog EXCEPT ![r].calls = @ + 1, ![r].written = @ + n]
    /\ UNCHANGED <<registry, modelFile, attendance, unknownDir, trainVars, viewVars,
                   is_scanning, scan_btn, scan, scanLog>>

\* Lines 78-99: one attempt of the pose loop, with a script of poses poses of
\* attempts attempts each, and a detector that finds n faces, n in face_counts.
TakeAttempt(r, poses, attempts, face_counts) ==
    /\ reg[r].pc = "capture"
    /\ \E dev \in Devices :
        LET g == GetFrame(cap, dev)
            last == reg[r].attempt = attempts
            next_pose == IF last THEN reg[r].pose + 1 ELSE reg[r].pose
            next_attempt == IF last THEN 1 ELSE reg[r].attempt + 1
            next_pc == IF last /\ reg[r].pose = poses THEN "register" ELSE "capture"
        IN
        /\ cap' = g.cap
        /\ IF g.result = "raise"
           THEN /\ reg' = [reg EXCEPT ![r].pc = "returned", ![r].ret = <<FALSE, 0>>]
                /\ regLog' = [regLog EXCEPT ![r].calls = @ + 1, ![r].failed = TRUE,
                                            ![r].samplesSoFar = reg[r].sample_num]
                /\ UNCHANGED samples
           ELSE IF g.result = "fail"
           THEN /\ reg' = [reg EXCEPT ![r].pc = next_pc, ![r].pose = next_pose,
                                      ![r].attempt = next_attempt]
                /\ regLog' = [regLog EXCEPT ![r].calls = @ + 1]
                /\ UNCHANGED samples
           ELSE \E n \in face_counts :
                /\ samples' = WriteSamples(samples, reg[r].name, reg[r].student_id,
                                           reg[r].sample_num, n)
                /\ reg' = [reg EXCEPT ![r].pc = next_pc, ![r].pose = next_pose,
                                      ![r].attempt = next_attempt,
                                      ![r].sample_num = @ + n]
                /\ regLog' = [regLog EXCEPT ![r].calls = @ + 1, ![r].written = @ + n]
    /\ UNCHANGED <<registry, modelFile, attendance, unknownDir, trainVars, viewVars,
                   is_scanning, scan_btn, scan, scanLog>>

\* Lines 101-106: the row is appended and (True, sample_num) returned.
TakeRegister(r) ==
    /\ reg[r].pc = "register"
    /\ registry' = Append(registry, <<reg[r].student_id, reg[r].name>>)
    /\ reg' = [reg EXCEPT ![r].pc = "returned", ![r].ret = <<TRUE, reg[r].sample_num>>]
    /\ regLog' = [regLog EXCEPT ![r].rowAdded = TRUE]
    /\ UNCHANGED <<samples, modelFile, attendance, unknownDir, trainVars, viewVars, scanVars>>

\* Lines 108-110: an exception in the try, of the detector (line 84) during the
\* capture or of the opening of StudentDetails.csv (line 101): the error is
\* logged and (False, 0) returned, whatever sample_num is.
TakeFails(r) ==
    /\ reg[r].pc \in {"capture", "register"}
    /\ reg' = [reg EXCEPT ![r].pc = "returned", ![r].ret = <<FALSE, 0>>]
    /\ regLog' = [regLog EXCEPT ![r].failed = TRUE,
                                ![r].samplesSoFar = reg[r].sample_num]
    /\ UNCHANGED <<fileVars, trainVars, viewVars, scanVars>>

\* _start_registration: the entries are validated on the main thread and a
\* thread is started for _process_registration(name, student_id).
StartRegistration(name, student_id) ==
    IF ValidateInputs(name, student_id)
    THEN /\ \E r \in RegWorkers :
              /\ reg[r].pc = "unborn"
              /\ \A q \in 1..(r - 1) : reg[q].pc # "unborn"
              /\ reg' = [reg EXCEPT ![r].pc = "enter", ![r].name = name,
                                    ![r].student_id = student_id]
         /\ UNCHANGED <<fileVars, trainVars, viewVars, scanVars, regLog>>
    ELSE UNCHANGED vars

\* _process_registration after take_images returned: on success the model is
\* trained (line 481), on failure only a message is shown.
RegFinish(r) ==
    /\ reg[r].pc = "returned"
    /\ IF reg[r].ret[1]
       THEN LET o == TrainOutcome(samples, modelFile) IN
            /\ modelFile' = o.model
            /\ reg' = [reg EXCEPT ![r].pc = "done", ![r].trained = o.ret]
       ELSE /\ reg' = [reg EXCEPT ![r].pc = "done"]
            /\ UNCHANGED modelFile
    /\ UNCHANGED <<registry, samples, attendance, unknownDir, trainVars, viewVars, scanVars, regLog>>

----------------------------------------------------------------------------
(* Specification SpecTrack: one call of track_attendance, by worker 1, for
   every callback, model, camera and flag it can be called with, while the
   flag may be cleared by its owner. *)

MaxFaces == 2

\* A model trained on samples of ids 1 and 2.
TrainedModel ==
    ModelOf({[img |-> SampleFileName(NameA, Id1, 1), label |-> 1],
             [img |-> SampleFileName(NameB, Id2, 1), label |-> 2]})

Confidences == {59, 60, 75}

\* The frames a camera can deliver: up to n faces, each as predicted.
RECURSIVE FramesUpTo(_, _, _)
FramesUpTo(n, ids, confs) ==
    IF n = 0 THEN {<<>>}
    ELSE LET shorter == FramesUpTo(n - 1, ids, confs) IN
         shorter \cup {Append(fr, [id |-> i, conf |-> c]) :
                          fr \in {g \in shorter : Len(g) = n - 1}, i \in ids, c \in confs}

TrackFrames == FramesUpTo(MaxFaces, {1, 2}, Confidences)

TrackInit ==
    /\ registry = <<<<Id1, NameA>>>>
    /\ samples = {}
    /\ attendance = <<>>
    /\ unknownDir = {}
    /\ modelFile \in {NoModel, TrainedModel}
    /\ trainCalls = 0
    /\ trainLog = NoTrainLog
    /\ cap \in {"none", "open"}
    /\ is_scanning \in BOOLEAN
    /\ scan_btn = "Start Scanning"
    /\ \E kind \in {"absent", "ui", "any"} :
        scan = [w \in ScanWorkers |->
                   IF w = 1 THEN [ScanLocalsInit EXCEPT !.pc = "enter", !.cb = kind]
                   ELSE ScanLocalsInit]
    /\ scanLog = [w \in ScanWorkers |-> ScanLogInit]
    /\ RegIdle
    /\ ViewIdle

\* The flag's owner clears it while track_attendance runs (Interface.py 493, 552).
FlagCleared ==
    /\ is_scanning
    /\ scan[1].pc \notin {"returned", "done"}
    /\ is_scanning' = FALSE
    /\ scanLog' = NoteStopped(scanLog)
    /\ UNCHANGED <<fileVars, trainVars, viewVars, regVars, cap, scan_btn, scan>>

TrackNext ==
    \/ TrackEnter(1)
    \/ TrackLoop(1)
    \/ TrackFrame(1, TrackFrames)
    \/ TrackFace(1)
    \/ TrackSave(1)
    \/ TrackCallback(1)
    \/ FlagCleared

SpecTrack == TrackInit /\ [][TrackNext]_vars

\* The rows of Attendance.csv appended by the invocation of worker w.
RecordsBy(w) == SelectSeq(attendance, LAMBDA r : r.by = w)

\* C3: in one track_attendance invocation the records appended are one per
\* distinct id classified with confidence below the threshold: as many records
\* as such ids, no two for one id, and a face below the threshold appends a
\* record exactly when its id is recognized for the first time.
C3_OneRecordPerRecognizedId ==
    \A w \in ScanWorkers :
        /\ Len(RecordsBy(w)) = Cardinality(scanLog[w].passed)
        /\ {RecordsBy(w)[i].id : i \in 1..Len(RecordsBy(w))} = scanLog[w].passed
        /\ (scanLog[w].faces > 0 /\ scanLog[w].last.conf < ConfidenceThreshold) =>
               (scanLog[w].last.recorded <=> scanLog[w].last.first)

C3_Witness ==
    /\ scanLog[1].passed = {1, 2}
    /\ Len(RecordsBy(1)) = 2
    /\ scanLog[1].calls >= 2
    /\ scanLog[1].faces >= 4
    /\ scanLog[1].last.conf < ConfidenceThreshold
    /\ ~scanLog[1].last.first

\* C4: a face whose confidence is at or above the threshold is never handled as
\* recognized: no record, its id not added to the seen set, no recognized
\* notification, and the red "Unknown" label.
C4_AtThresholdNotRecognized ==
    \A w \in ScanWorkers :
        (scanLog[w].faces > 0 /\ scanLog[w].last.conf >= ConfidenceThreshold) =>
            /\ ~scanLog[w].last.recorded
            /\ ~scanLog[w].last.marked
            /\ ~scanLog[w].last.notified
            /\ scanLog[w].last.color = "red"
            /\ scanLog[w].last.label = UnknownName

C4_Witness ==
    /\ scanLog[1].faces > 0
    /\ scanLog[1].last.conf = ConfidenceThreshold
    /\ scanLog[1].last.id \notin scan[1].recognized_ids
    /\ scan[1].cb # "absent"
    /\ Len(RecordsBy(1)) = 0

\* C10: track_attendance called while Trainer.yml does not exist returns
\* (False, "Model not trained"), with the flag set or clear, and before that it
\* calls get_frame never, appends no record, saves no unknown face and makes no
\* update notification.
C10_NoModelFailsAtOnce ==
    \A w \in ScanWorkers :
        (~modelFile.exists /\ scan[w].pc # "unborn") =>
            /\ scan[w].pc \in {"enter", "returned"}
            /\ scan[w].pc = "returned" => scan[w].ret = <<FALSE, "Model not trained">>
            /\ scanLog[w].calls = 0
            /\ Len(RecordsBy(w)) = 0
            /\ scanLog[w].saved = 0
            /\ scanLog[w].notes = 0

C10_Witness ==
    /\ ~modelFile.exists
    /\ scan[1].pc = "returned"
    /\ scanLog[1].flagAtEntry
    /\ is_scanning
    /\ scan[1].cb = "ui"

\* C11, as the specification states it: a call of track_attendance that finds
\* the scanning flag false returns success with the completion message, having
\* called get_frame never and appended no record.
C11_FlagFalseReturnsSuccess ==
    \A w \in ScanWorkers :
        (scan[w].pc = "returned" /\ ~scanLog[w].flagAtEntry) =>
            /\ scan[w].ret = <<TRUE, "Attendance tracking completed">>
            /\ scanLog[w].calls = 0
            /\ Len(RecordsBy(w)) = 0

\* C11, amended: where Trainer.yml exists, a call of track_attendance that finds
\* the scanning flag false, the flag staying false, goes from the loading of the
\* model straight to the return of success with the completion message: it
\* calls get_frame never, appends no record and saves no unknown face.
C11_FlagFalseWithModelReturnsAtOnce ==
    \A w \in ScanWorkers :
        (modelFile.exists /\ scan[w].pc \notin {"unborn", "enter"}
            /\ ~scanLog[w].flagAtEntry) =>
            /\ scan[w].pc \in {"loop", "returned"}
            /\ scan[w].pc = "returned" =>
                   scan[w].ret = <<TRUE, "Attendance tracking completed">>
            /\ scanLog[w].calls = 0
            /\ Len(RecordsBy(w)) = 0
            /\ scanLog[w].saved = 0

C11_Witness ==
    /\ modelFile.exists
    /\ ~scanLog[1].flagAtEntry
    /\ scan[1].pc = "returned"
    /\ scan[1].ret = <<TRUE, "Attendance tracking completed">>
    /\ scan[1].cb = "ui"

\* C12: a face predicted with a confidence at or above the threshold is labelled Unknown in
\* red, adds exactly one image to ImagesUnknown once _save_unknown_face has
\* written it, and gets no attendance record, no entry in the seen set and no
\* recognition notification.
C12_UnknownFaceSavedOnce ==
    \A w \in ScanWorkers :
        (scanLog[w].faces > 0 /\ scanLog[w].last.conf >= ConfidenceThreshold) =>
            /\ scanLog[w].last.label = <<"U", "n", "k", "n", "o", "w", "n">>
            /\ scanLog[w].last.color = "red"
            /\ scanLog[w].last.saved
            /\ scan[w].pc # "save" => scanLog[w].last.grew = 1
            /\ ~scanLog[w].last.recorded
            /\ ~scanLog[w].last.marked
            /\ ~scanLog[w].last.notified

C12_Witness ==
    /\ scanLog[1].faces = 2
    /\ scanLog[1].last.conf = 75
    /\ scanLog[1].last.grew = 1
    /\ Cardinality(unknownDir) = 2
    /\ attendance = <<>>

\* C21: a face predicted below the threshold with an id that is in no row of
\* the registry read at entry is labelled Unknown and still taken as recognized:
\* the id is in the seen set, the invocation has exactly one record for it, with
\* the name Unknown, appended when the id was first seen, and no file is added
\* to ImagesUnknown for the face.
C21_UnregisteredIdRecordedAsUnknown ==
    \A w \in ScanWorkers :
        (scanLog[w].faces > 0 /\ scanLog[w].last.conf < ConfidenceThreshold
            /\ \A i \in 1..Len(scan[w].df) : scan[w].df[i].ID # scanLog[w].last.id) =>
            /\ scanLog[w].last.label = <<"U", "n", "k", "n", "o", "w", "n">>
            /\ scanLog[w].last.id \in scan[w].recognized_ids
            /\ scanLog[w].last.recorded = scanLog[w].last.first
            /\ Len(SelectSeq(RecordsBy(w), LAMBDA r : r.id = scanLog[w].last.id)) = 1
            /\ \A i \in 1..Len(attendance) :
                   (attendance[i].by = w /\ attendance[i].id = scanLog[w].last.id) =>
                       attendance[i].name = <<"U", "n", "k", "n", "o", "w", "n">>
            /\ ~scanLog[w].last.saved
            /\ scanLog[w].last.grew = 0

C21_Witness ==
    /\ scanLog[1].faces >= 2
    /\ scanLog[1].last.id = 2
    /\ scanLog[1].last.conf = 59
    /\ ~scanLog[1].last.first
    /\ Len(attendance) = 1
    /\ attendance[1].name = UnknownName
    /\ unknownDir = {}

\* C16: a get_frame that delivers no frame, the camera that cannot be opened
\* included, aborts no call of track_attendance: the call goes on to the next
\* test of the flag.
C16_FailedFrameSkipped ==
    \A w \in ScanWorkers :
        /\ scanLog[w].aborted # "get_frame"
        /\ scan[w].pc = "returned" => scan[w].ret # <<FALSE, "Error">>

\* C19: when the update notification with the frame returns False, the loop
\* ends there, the flag being true or not: track_attendance returns success
\* with the completion message and calls get_frame no more.
C19_FalseReturnEndsLoop ==
    \A w \in ScanWorkers :
        scanLog[w].lastCb = "False" =>
            /\ scan[w].pc = "returned"
            /\ scan[w].ret = <<TRUE, "Attendance tracking completed">>
            /\ scanLog[w].calls = scanLog[w].callsAtCb

C19_Witness ==
    /\ scanLog[1].lastCb = "False"
    /\ scan[1].pc = "returned"
    /\ is_scanning
    /\ scanLog[1].calls = 1
    /\ Len(attendance) = 1

\* C20: an update notification that returns no boolean (None) does not end the
\* loop.
C20_NonBooleanContinues ==
    \A w \in ScanWorkers :
        scanLog[w].lastCb = "None" => ~scanLog[w].broke

----------------------------------------------------------------------------
(* Specification SpecTrain: train_model on the sample stores an installation
   can hold, with samples written between the calls. *)

MaxTrainCalls == 2

\* Files TrainingImages/ may hold when the program starts: samples of earlier
\* enrollments, one of them damaged, and two files that are no samples.
StoredA1 == [fname |-> SampleFileName(NameA, Id1, 1), img |-> ImgOk]
StoredA01 == [fname |-> SampleFileName(NameA, Id01, 1), img |-> ImgOk]
StoredB2Damaged == [fname |-> SampleFileName(NameB, Id2, 1), img |-> ImgBad]
StrayThumbs == [fname |-> <<"T", ".", "d", "b">>, img |-> ImgOk]
StrayNoDot == [fname |-> <<"x">>, img |-> ImgOk]
StoredFiles == {StoredA1, StoredA01, StoredB2Damaged, StrayThumbs, StrayNoDot}

\* A model left by an earlier run.
OldModel == ModelOf({[img |-> <<"o", "l", "d">>, label |-> 9]})

FilesInit ==
    /\ registry = <<>>
    /\ attendance = <<>>
    /\ unknownDir = {}

TrainInit ==
    /\ FilesInit
    /\ samples \in SUBSET StoredFiles
    /\ modelFile \in {NoModel, OldModel}
    /\ trainCalls = 0
    /\ trainLog = NoTrainLog
    /\ ScanIdle
    /\ RegIdle
    /\ ViewIdle

\* A call of train_model.
TrainModel ==
    /\ trainCalls < MaxTrainCalls
    /\ LET o == TrainOutcome(samples, modelFile) IN
        /\ modelFile' = o.model
        /\ trainLog' = [called |-> TRUE, store |-> samples, before |-> modelFile,
                        ret |-> o.ret]
    /\ trainCalls' = trainCalls + 1
    /\ UNCHANGED <<registry, samples, attendance, unknownDir, viewVars, scanVars, regVars>>

\* An enrollment writes a sample between two trainings (take_images' imwrite).
SampleWritten ==
    /\ trainCalls < MaxTrainCalls
    /\ samples' = ImWrite(samples, SampleFileName(NameB, Id2, 1))
    /\ samples' # samples
    /\ UNCHANGED <<registry, modelFile, attendance, unknownDir, trainVars, viewVars, scanVars, regVars>>

TrainNext == TrainModel \/ SampleWritten

SpecTrain == TrainInit /\ [][TrainNext]_vars

\* What the claims call a valid sample: it decodes and the piece of its file
\* name after the first dot is a number.
DecodesAsImage(f) == f.img = ImgOk
NameCarriesId(f) ==
    \E i \in 1..Len(f.fname) :
        /\ f.fname[i] = "."
        /\ \A j \in 1..(i - 1) : f.fname[j] # "."
        /\ \E k \in (i + 1)..(Len(f.fname) + 1) :
            /\ k > i + 1
            /\ (k = Len(f.fname) + 1 \/ f.fname[k] = ".")
            /\ \A j \in (i + 1)..(k - 1) : f.fname[j] \in Digits
HasValidSample(store) == \E f \in store : DecodesAsImage(f) /\ NameCarriesId(f)

\* C7: train_model on an empty sample store returns (False, "No training
\* images found") and leaves Trainer.yml as it was: absent stays absent, an
\* existing model is kept.
C7_EmptyStoreFails ==
    (trainLog.called /\ trainLog.store = {}) =>
        /\ trainLog.ret = <<FALSE, "No training images found">>
        /\ modelFile = trainLog.before

C7_Witness ==
    /\ trainLog.called /\ trainLog.store = {}
    /\ trainLog.before = OldModel
    /\ modelFile = OldModel

\* C8: train_model on a store with at least one valid sample succeeds whatever
\* else the store holds, and Trainer.yml then holds exactly the pairs of the
\* valid samples read, nothing of the model it replaces.
C8_ValidSampleTrains ==
    (trainLog.called /\ HasValidSample(trainLog.store)) =>
        /\ trainLog.ret[1] = TRUE
        /\ modelFile.exists
        /\ {p.img : p \in modelFile.pairs} =
               {f.fname : f \in {g \in trainLog.store :
                                    DecodesAsImage(g) /\ NameCarriesId(g)}}
        /\ \A p \in modelFile.pairs :
               p.label = IntOf(SplitDots(p.img)[2])

C8_Witness ==
    /\ trainLog.called
    /\ trainLog.before = OldModel
    /\ StoredA1 \in trainLog.store
    /\ StoredB2Damaged \in trainLog.store
    /\ StrayThumbs \in trainLog.store
    /\ StrayNoDot \in trainLog.store
    /\ trainLog.ret[1] = TRUE
    /\ Cardinality(modelFile.pairs) = 1

\* C9: train_model on a store that holds files none of which is a valid sample
\* returns (False, "No faces detected in training images"), which is not the
\* answer for an empty store, and leaves Trainer.yml as it was.
C9_NoValidSampleFails ==
    (trainLog.called /\ trainLog.store # {} /\ ~HasValidSample(trainLog.store)) =>
        /\ trainLog.ret = <<FALSE, "No faces detected in training images">>
        /\ trainLog.ret # RetNoTrainingData
        /\ modelFile = trainLog.before

C9_Witness ==
    /\ trainLog.called
    /\ trainLog.store = {StoredB2Damaged, StrayThumbs, StrayNoDot}
    /\ trainLog.before = OldModel
    /\ modelFile = OldModel

----------------------------------------------------------------------------
(* Specification SpecScan: the program's scanning. The user presses the scan
   button; each start runs _process_scanning on a new thread. *)

ScanFrames == FramesUpTo(1, {1}, {59, 60})

ScanInit ==
    /\ registry = <<<<Id1, NameA>>>>
    /\ samples = {}
    /\ attendance = <<>>
    /\ unknownDir = {}
    /\ modelFile \in {NoModel, TrainedModel}
    /\ trainCalls = 0
    /\ trainLog = NoTrainLog
    /\ cap = "open"
    /\ is_scanning = FALSE
    /\ scan_btn = "Start Scanning"
    /\ scan = [w \in ScanWorkers |-> ScanLocalsInit]
    /\ scanLog = [w \in ScanWorkers |-> ScanLogInit]
    /\ RegIdle
    /\ ViewIdle

\* _toggle_scanning, on the main thread.
ToggleScanning ==
    IF is_scanning
    THEN /\ is_scanning' = FALSE
         /\ scan_btn' = "Start Scanning"
         /\ scanLog' = NoteStopped(scanLog)
         /\ UNCHANGED <<fileVars, trainVars, viewVars, regVars, cap, scan>>
    ELSE /\ \E w \in ScanWorkers :
              /\ scan[w].pc = "unborn"
              /\ \A v \in 1..(w - 1) : scan[v].pc # "unborn"
              /\ scan' = [scan EXCEPT ![w].pc = "enter", ![w].cb = "ui"]
         /\ is_scanning' = TRUE
         /\ scan_btn' = "Stop Scanning"
         /\ UNCHANGED <<fileVars, trainVars, viewVars, regVars, cap, scanLog>>

\* _process_scanning after track_attendance returned (lines 522-528).
ScanFinish(w) ==
    /\ scan[w].pc = "returned"
    /\ scan' = [scan EXCEPT ![w].pc = "done"]
    /\ is_scanning' = FALSE
    /\ scan_btn' = "Start Scanning"
    /\ scanLog' = NoteStopped(scanLog)
    /\ UNCHANGED <<fileVars, trainVars, viewVars, regVars, cap>>

ScanNext ==
    \/ ToggleScanning
    \/ \E w \in ScanWorkers :
        \/ TrackEnter(w)
        \/ TrackLoop(w)
        \/ TrackFrame(w, ScanFrames)
        \/ TrackFace(w)
        \/ TrackSave(w)
        \/ TrackCallback(w)
        \/ ScanFinish(w)

SpecScan == ScanInit /\ [][ScanNext]_vars

\* C5: a scanning loop whose flag was cleared while it ran finishes at most
\* the iteration in progress, whatever the user does next: it makes no
\* get_frame call beyond that iteration's.
C5_StoppedLoopEnds ==
    \A w \in ScanWorkers :
        scanLog[w].stopped => scanLog[w].calls <= scanLog[w].allowed

\* C6: at most one thread is in the loop of track_attendance at a time.
C6_OneSessionAtATime ==
    Cardinality({w \in ScanWorkers : scan[w].pc \in LoopPcs}) <= 1

\* C23: every write of _save_unknown_face adds a file to ImagesUnknown: none
\* replaces a file written before, however the scanning threads interleave.
C23_SaveNeverOverwrites ==
    [][\A w \in ScanWorkers :
          (scan[w].pc = "save" /\ scan'[w].pc # "save") =>
              Cardinality(unknownDir') = Cardinality(unknownDir) + 1]_vars

\* C24: the clean-up of a scanning thread that has left track_attendance
\* clears the scanning flag and resets the scan button only when no other
\* thread is in the loop of track_attendance: it ends no session but its own.
C24_CleanupSparesNewerSession ==
    [][\A w \in ScanWorkers :
          (scan[w].pc = "returned" /\ scan'[w].pc = "done" /\ is_scanning) =>
              \A v \in ScanWorkers \ {w} :
                  scan[v].pc \in LoopPcs => (is_scanning' /\ scan_btn' = "Stop Scanning")]_vars

\* C17: the seen set belongs to one track_attendance invocation and starts
\* empty: each session appends exactly one record for every id it classifies
\* below the threshold, whether or not another session, finished or running,
\* has recorded that id, and no record for any other id.
C17_SeenSetPerSession ==
    \A w \in ScanWorkers :
        /\ scan[w].recognized_ids = scanLog[w].passed
        /\ \A id \in scanLog[w].passed :
               Cardinality({i \in 1..Len(attendance) :
                               attendance[i].by = w /\ attendance[i].id = id}) = 1
        /\ \A i \in 1..Len(attendance) :
               attendance[i].by = w => attendance[i].id \in scanLog[w].passed

C17_Witness ==
    /\ scanLog[1].passed = {1}
    /\ scanLog[2].passed = {1}
    /\ scan[1].pc = "done"
    /\ Len(attendance) = 2
    /\ attendance[1].id = attendance[2].id
    /\ attendance[1].by # attendance[2].by

----------------------------------------------------------------------------
(* Specification SpecReg: the program's registration. The user submits the
   form; each accepted submission runs _process_registration on a new thread.
   The pose script is cut to RegPoses poses of RegAttempts attempts. *)

RegPoses == 1
RegAttempts == 2

FormNames == {NameA, NameB}
FormIds == {Id1, Id01, <<>>}

RegInit ==
    /\ registry \in {<<>>, <<<<Id1, NameA>>>>}
    /\ samples = {}
    /\ attendance = <<>>
    /\ unknownDir = {}
    /\ modelFile = NoModel
    /\ trainCalls = 0
    /\ trainLog = NoTrainLog
    /\ cap = "open"
    /\ is_scanning = FALSE
    /\ scan_btn = "Start Scanning"
    /\ scan = [w \in ScanWorkers |-> ScanLocalsInit]
    /\ scanLog = [w \in ScanWorkers |-> ScanLogInit]
    /\ RegIdle
    /\ ViewIdle

RegNext ==
    \/ \E name \in FormNames, student_id \in FormIds : StartRegistration(name, student_id)
    \/ \E r \in RegWorkers :
        \/ TakeEnter(r)
        \/ TakeAttempt(r, RegPoses, RegAttempts, {0, 1})
        \/ TakeRegister(r)
        \/ RegFinish(r)

SpecReg == RegInit /\ [][RegNext]_vars

\* C1: a take_images call for an id that is in the registry when it is entered
\* fails without a get_frame call, a sample written or a row added.
C1_DuplicateFailsBeforeCapture ==
    \A r \in RegWorkers :
        regLog[r].dupAtEntry =>
            /\ regLog[r].calls = 0
            /\ regLog[r].written = 0
            /\ ~regLog[r].rowAdded
            /\ reg[r].pc \in {"returned", "done"} => ~reg[r].ret[1]

\* C2: the registry holds at most one row per student id.
C2_RegistryIdsUnique ==
    \A i, j \in 1..Len(registry) : i # j => registry[i][1] # registry[j][1]

\* C25: two rows of the registry with different ids have different keys in
\* the table track_attendance looks names up in, and two samples of the
\* trained model whose file names carry different ids have different labels.
C25_DistinctIdsDistinctLabels ==
    /\ \A i, j \in 1..Len(registry) :
           registry[i][1] # registry[j][1] =>
               PdReadCsv(registry)[i].ID # PdReadCsv(registry)[j].ID
    /\ \A p, q \in modelFile.pairs :
           SplitDots(p.img)[2] # SplitDots(q.img)[2] => p.label # q.label

----------------------------------------------------------------------------
(* Specification SpecEnroll: one call of take_images(name, student_id), with
   the script of the source, 5 instructions of 10 attempts each. Every attempt
   may get no frame, or a frame with 0, 1 or 2 faces; the detector or a file
   may fail at any point of the try. *)

NumInstructions == 5
AttemptsPerInstruction == 10
FaceCounts == {0, 1, 2}

EnrollInit ==
    /\ registry \in {<<>>, <<<<Id2, NameB>>>>}
    /\ samples = {}
    /\ attendance = <<>>
    /\ unknownDir = {}
    /\ modelFile = NoModel
    /\ trainCalls = 0
    /\ trainLog = NoTrainLog
    /\ cap \in {"none", "open"}
    /\ is_scanning = FALSE
    /\ scan_btn = "Start Scanning"
    /\ scan = [w \in ScanWorkers |-> ScanLocalsInit]
    /\ scanLog = [w \in ScanWorkers |-> ScanLogInit]
    /\ \E name \in {NameA}, student_id \in {Id1, Id01} :
        reg = [r \in RegWorkers |->
                  IF r = 1
                  THEN [RegLocalsInit EXCEPT !.pc = "enter", !.name = name,
                                             !.student_id = student_id]
                  ELSE RegLocalsInit]
    /\ regLog = [r \in RegWorkers |-> RegLogInit]
    /\ ViewIdle

EnrollNext ==
    \E r \in RegWorkers :
        \/ TakeEnter(r)
        \/ TakeAttempt(r, NumInstructions, AttemptsPerInstruction, FaceCounts)
        \/ TakeRegister(r)
        \/ TakeFails(r)

SpecEnroll == EnrollInit /\ [][EnrollNext]_vars

\* The thread that runs take_images is scheduled as long as it has a step to
\* take, and each call it makes (get_frame, detectMultiScale, imwrite) returns.
SpecEnrollFair == SpecEnroll /\ WF_vars(EnrollNext)

\* The samples of TrainingImages written for name and student_id.
SamplesOf(name, student_id) ==
    {f \in samples :
        \E k \in 1..(NumInstructions * AttemptsPerInstruction * 2) :
            f.fname = SampleFileName(name, student_id, k)}

\* C14: a take_images call that goes through every attempt of every
\* instruction without an exception returns (True, n), where n is the number
\* of faces detected in the frames it got, which is the number of sample files
\* written (the count and the files agree after every attempt), and the registry
\* then holds the row (student_id, name).
C14_CompletedEnrollmentCounts ==
    \A r \in RegWorkers :
        /\ reg[r].pc \in {"capture", "register"} =>
            /\ reg[r].sample_num = regLog[r].written
            /\ Cardinality(SamplesOf(reg[r].name, reg[r].student_id)) = reg[r].sample_num
        /\ reg[r].pc = "returned" =>
            /\ reg[r].ret[1] = ~regLog[r].failed
            /\ reg[r].ret[1] =>
                /\ regLog[r].calls = NumInstructions * AttemptsPerInstruction
                /\ reg[r].ret[2] = regLog[r].written
                /\ Cardinality(SamplesOf(reg[r].name, reg[r].student_id)) = reg[r].ret[2]
                /\ registry # <<>>
                /\ registry[Len(registry)] = <<reg[r].student_id, reg[r].name>>

C14_Witness ==
    /\ reg[1].pc = "returned"
    /\ reg[1].ret = <<TRUE, NumInstructions * AttemptsPerInstruction>>
    /\ regLog[1].written = NumInstructions * AttemptsPerInstruction
    /\ registry = <<<<Id2, NameB>>, <<Id01, NameA>>>>

\* C22: take_images terminates: every attempt, with or without a frame and
\* whatever the number of faces, uses up one of the 10 attempts of its
\* instruction, so the get_frame calls made are never more than 5 * 10, and
\* the call returns in the end.
C22_TakeImagesTerminates ==
    /\ [](\A r \in RegWorkers :
             /\ regLog[r].calls <= NumInstructions * AttemptsPerInstruction
             /\ reg[r].pc = "capture" =>
                    regLog[r].calls =
                        (reg[r].pose - 1) * AttemptsPerInstruction + reg[r].attempt - 1)
    /\ <>(\A r \in RegWorkers : reg[r].pc \in {"unborn", "returned"})

C22_Witness ==
    /\ reg[1].pc = "returned"
    /\ reg[1].ret = <<TRUE, 0>>
    /\ regLog[1].calls = NumInstructions * AttemptsPerInstruction
    /\ samples = {}

\* C15: a take_images call ended by an exception after k samples were written
\* returns (False, k) and adds no row to the registry.
C15_AbortReturnsSamplesSoFar ==
    \A r \in RegWorkers :
        (reg[r].pc = "returned" /\ regLog[r].failed) =>
            /\ reg[r].ret = <<FALSE, regLog[r].samplesSoFar>>
            /\ ~regLog[r].rowAdded

----------------------------------------------------------------------------
(* Specification SpecViewer: the frame queue of the VideoViewer, with the
   three callers of update_frame offering up to MaxOffers frames, numbered as
   they are offered, and _process_queue taking them. *)

MaxOffers == 4

ViewerInit ==
    /\ registry = <<>>
    /\ samples = {}
    /\ attendance = <<>>
    /\ unknownDir = {}
    /\ modelFile = NoModel
    /\ trainCalls = 0
    /\ trainLog = NoTrainLog
    /\ ScanIdle
    /\ RegIdle
    /\ ViewIdle

ViewerNext ==
    \/ \E src \in FrameSources :
        /\ viewLog.offers < MaxOffers
        /\ UpdateFrame([src |-> src, n |-> viewLog.offers + 1])
    \/ ProcessQueue

SpecViewer == ViewerInit /\ [][ViewerNext]_vars

\* C13: the frame on display, once _process_queue has taken one, is the frame
\* offered last before it was taken: a frame offered to the full queue takes
\* the place of the frame waiting there.
C13_ConsumerTakesLatest ==
    viewLog.takes > 0 => current_image = viewLog.latestAtTake

----------------------------------------------------------------------------
(* Specification SpecUI: the program's window, where the scan button and the
   registration form are both at hand: a scanning thread and a registration
   thread run side by side on the files of one installation. The user starts
   scanning once (and may stop it) and submits the form until one registration
   is accepted, in any order. The pose script is cut to RegPoses poses of
   RegAttempts attempts. *)

NoScanYet == \A w \in ScanWorkers : scan[w].pc = "unborn"
NoRegistrationYet == \A r \in RegWorkers : reg[r].pc = "unborn"

UIFrames == FramesUpTo(1, {1}, {59, 60})

UIInit ==
    /\ registry = <<<<Id1, NameA>>, <<Id2, NameB>>>>
    /\ samples = {[fname |-> SampleFileName(NameA, Id1, 1), img |-> ImgOk],
                  [fname |-> SampleFileName(NameB, Id2, 1), img |-> ImgOk]}
    /\ attendance = <<>>
    /\ unknownDir = {}
    /\ modelFile = TrainedModel
    /\ trainCalls = 0
    /\ trainLog = NoTrainLog
    /\ cap = "open"
    /\ is_scanning = FALSE
    /\ scan_btn = "Start Scanning"
    /\ scan = [w \in ScanWorkers |-> ScanLocalsInit]
    /\ scanLog = [w \in ScanWorkers |-> ScanLogInit]
    /\ RegIdle
    /\ ViewIdle

UINext ==
    \/ (is_scanning \/ NoScanYet) /\ ToggleScanning
    \/ \E w \in ScanWorkers :
        \/ TrackEnter(w)
        \/ TrackLoop(w)
        \/ TrackFrame(w, UIFrames)
        \/ TrackFace(w)
        \/ TrackSave(w)
        \/ TrackCallback(w)
        \/ ScanFinish(w)
    \/ \E student_id \in {Id1, Id01} :
        NoRegistrationYet /\ StartRegistration(NameA, student_id)
    \/ \E r \in RegWorkers :
        \/ TakeEnter(r)
        \/ TakeAttempt(r, RegPoses, RegAttempts, {1})
        \/ TakeRegister(r)
        \/ RegFinish(r)

SpecUI == UIInit /\ [][UINext]_vars

\* C18: from the loading of the model and the registry by a track_attendance
\* invocation to its return, StudentDetails.csv gets no row and Trainer.yml is
\* not written.
C18_ReadOnlyWhileScanning ==
    \A w \in ScanWorkers :
        scan[w].pc \in LoopPcs =>
            /\ registry = scanLog[w].rowsAtEntry
            /\ modelFile = scanLog[w].modelAtEntry

====
